---- MODULE Spec2Model ----
(***************************************************************************)
(* TalentShift front end: the UploadCV page (upload list, processFile,     *)
(* fallback estimator), and the score classifiers of Dashboard,            *)
(* CandidateDetail and UploadCV.                                           *)
(*                                                                         *)
(* Numbers.  A JavaScript number that may carry a fraction (a score) is    *)
(* held in fixed point as a count of 1/Scale; Num(n) is the integer n.     *)
(* The 32-bit hash keeps its width: every intermediate value is reduced    *)
(* through 16-bit halves, so that no value leaves the signed 32-bit range. *)
(***************************************************************************)
EXTENDS Integers, Sequences, FiniteSets, TLC

VARIABLES
    est,               \* the estimator run on its own
    cls,               \* the score classifiers run on their own
    backendHealthy,    \* environment: GET /api/health answers ok
    backendAvailable,  \* UploadCV state: "null" | "true" | "false"
    job,               \* UploadCV state: NullJob | Job
    initPc,            \* position of the init() effect of UploadCV
    isDragOver,        \* UploadCV state
    files,             \* UploadCV state: the upload list
    procs,             \* the processFile calls, indexed by their fileId
    nextId,            \* the next fresh fileId
    detail,            \* CandidateDetail: its state, its calls, the backend
    template,          \* JobTemplate: its state, its calls, the backend
    bundled,           \* the bundled data set: the record being read
    dashboard          \* Dashboard: its state, its calls

\* Values of different JavaScript types are kept apart: a string-valued
\* field holds Undefined or Null as a string, a boolean | null state holds
\* one of "null", "true", "false", an optional numeric field is absent from
\* the record while it is undefined.
Undefined == "undefined"
Null == "null"
Bool(b) == IF b THEN "true" ELSE "false"

(***************************************************************************)
(* 32-bit integer arithmetic of the hash loop                              *)
(***************************************************************************)
Two15 == 2^15
Two16 == 2^16
MinInt32 == (-(2^30)) * 2
MaxInt32 == (2^30 - 1) * 2 + 1

\* the low and the high 16 bits of the two's complement form of x
Lo16(x) == x % Two16
Hi16(x) == (x \div Two16) % Two16

\* ToInt32 of the value whose two's complement halves are hi and lo
Int32Of(hi, lo) ==
    IF hi >= Two15 THEN (hi - Two16) * Two16 + lo ELSE hi * Two16 + lo

\* a shift by one bit less
ShiftLeftOneLess(x, n) ==
    LET lo == Lo16(x) * 2^(n - 1)
        hi == Hi16(x) * 2^(n - 1) + (lo \div Two16)
    IN  Int32Of(hi % Two16, lo % Two16)

\* hash << n : the low 32 bits of hash * 2^n, read as a signed integer
ShiftLeft(x, n) ==
    LET lo == Lo16(x) * 2^n
        hi == Hi16(x) * 2^n + (lo \div Two16)
    IN  Int32Of(hi % Two16, lo % Two16)

\* ((a - b) + c) is exact in a double; hash & hash then applies ToInt32
SubAddToInt32(a, b, c) ==
    LET lo == Lo16(a) - Lo16(b) + c
        hi == Hi16(a) - Hi16(b) + (lo \div Two16)
    IN  Int32Of(hi % Two16, lo % Two16)

\* one iteration of the loop body:
\*   hash = ((hash << 5) - hash) + char ; hash = hash & hash
\* (h ranges over the one value of hash, so that hash is evaluated once)
HashStep(hash, char) ==
    CHOOSE next \in { SubAddToInt32(ShiftLeft(h, 5), h, char) : h \in { hash } } : TRUE

\* Math.abs(hash) % m ; Math.abs works on doubles, so Math.abs(-2^31) is
\* 2^31 exactly.  (-(hash + 1)) + 1 keeps the evaluation within 32 bits.
AbsRem(hash, m) ==
    IF hash >= 0 THEN hash % m ELSE (((-(hash + 1)) % m) + 1) % m

\* the result Math.abs(hash) % m would have if abs wrapped to 32 bits
\* (abs(-2^31) = -2^31) and % kept the sign of the dividend
AbsRemWrapped(hash, m) ==
    IF hash = MinInt32 THEN -((((-(hash + 1)) % m) + 1) % m)
    ELSE IF hash >= 0 THEN hash % m ELSE (-hash) % m

FallbackScoreWrapped(hash) == AbsRemWrapped(hash, 61) + 40

\* const score = (Math.abs(hash) % 61) + 40
FallbackScore(hash) == AbsRem(hash, 61) + 40

\* the number of decimal digits of a non-negative 32-bit integer
NumDigits(n) ==
    IF n >= 10^9 THEN 10
    ELSE CHOOSE d \in 1 .. 9 : n < 10^d /\ (d = 1 \/ n >= 10^(d - 1))

\* Number.prototype.toString of a non-negative integer: its decimal digits
\* as character codes, the most significant first
Decimal(n) ==
    [k \in 1 .. NumDigits(n) |-> 48 + ((n \div 10^(NumDigits(n) - k)) % 10)]

\* the whole loop: let hash = 0; for (i = 0; i < str.length; i++) HashStep
HashLoop(str) ==
    LET hashAfter[k \in 0 .. Len(str)] ==
            IF k = 0 THEN 0 ELSE HashStep(hashAfter[k - 1], str[k])
    IN  hashAfter[Len(str)]

(***************************************************************************)
(* Inputs of the estimator                                                 *)
(***************************************************************************)
\* character codes of ".pdf"
DotPdf == << 46, 112, 100, 102 >>

\* "rqbxhvo.pdf" followed by the size 0 hashes to -2^31; the hash of the
\* first seven characters of "xfjfxte.pdf" is 2^31 - 1, of "xfjfxtf.pdf"
\* -2^31 and of "zsjpxag.pdf" -1; NameHigh is seven times U+FFFF
NameMin == << 114, 113, 98, 120, 104, 118, 111 >> \o DotPdf
NameMax == << 120, 102, 106, 102, 120, 116, 101 >> \o DotPdf
NamePreMin == << 120, 102, 106, 102, 120, 116, 102 >> \o DotPdf
NameNeg == << 122, 115, 106, 112, 120, 97, 103 >> \o DotPdf
NameCv  == << 99, 118 >> \o DotPdf
NameHigh == << 65535, 65535, 65535, 65535, 65535, 65535, 65535 >>

EstNames == { << >>, NameCv, NameMin, NameMax, NamePreMin, NameNeg, NameHigh }
MaxEstSize == 13
EstSizes == 0 .. MaxEstSize \cup { 12345, MaxInt32 }

(***************************************************************************)
(* The estimator run one loop iteration at a time                          *)
(***************************************************************************)
EstIdle == [pc |-> "idle"]

\* the variables of the other components, at rest
ClsIdle == [pc |-> "idle"]
BundledIdle == [pc |-> "idle"]
pageVars == << detail, template, dashboard, bundled >>
PagesIdle ==
    /\ detail = [pc |-> "idle"]
    /\ template = [pc |-> "idle"]
    /\ dashboard = [pc |-> "idle"]
    /\ bundled = BundledIdle
uploadVars == << backendHealthy, backendAvailable, job, initPc, isDragOver,
                files, procs, nextId >>
UploadIdle ==
    /\ backendHealthy = TRUE
    /\ backendAvailable = Null
    /\ job = [null |-> TRUE]
    /\ initPc = "checkHealth"
    /\ isDragOver = FALSE
    /\ files = << >>
    /\ procs = << >>
    /\ nextId = 1

EstInit ==
    /\ UploadIdle
    /\ PagesIdle
    /\ cls = ClsIdle
    /\ est \in { [pc |-> "loop", name |-> n, size |-> s,
               str |-> n \o Decimal(s), i |-> 0, hash |-> 0,
               prev |-> 0] :
              n \in EstNames, s \in EstSizes }

\* for (let i = 0; i < str.length; i++) { ... }
EstLoopStep ==
    /\ est.pc = "loop"
    /\ est.i < Len(est.str)
    /\ est' = [est EXCEPT !.hash = HashStep(est.hash, est.str[est.i + 1]),
                          !.prev = est.hash,
                          !.i = est.i + 1]
    /\ UNCHANGED << cls, uploadVars, pageVars >>

\* const score = (Math.abs(hash) % 61) + 40
EstScore ==
    /\ est.pc = "loop"
    /\ est.i = Len(est.str)
    /\ est' = [pc |-> "done", name |-> est.name, size |-> est.size,
               str |-> est.str, i |-> est.i, hash |-> est.hash,
               prev |-> est.prev, score |-> FallbackScore(est.hash)]
    /\ UNCHANGED << cls, uploadVars, pageVars >>

EstNext == EstLoopStep \/ EstScore


(***************************************************************************)
(* UploadCV                                                                *)
(***************************************************************************)
\* fixed point: a number is held as a count of 1/Scale
Scale == 2 * 5
Num(n) == n * Scale

\* JavaScript truthiness of a boolean | null, of a string | null | undefined
\* and of a number
Falsy(v) == v \in { Null, Undefined, "false", "" }
FalsyNum(n) == n = 0

\* a || b
Or(a, b) == IF Falsy(a) THEN b ELSE a
OrNum(a, b) == IF FalsyNum(a) THEN b ELSE a

\* { ...f, ...g }
Merge(f, g) ==
    [k \in (DOMAIN f) \cup (DOMAIN g) |-> IF k \in DOMAIN g THEN g[k] ELSE f[k]]

\* the fields of an entry that hold a string | undefined
StringFields == { "candidateName", "error" }

\* the entry carries a defined value for the field k
Has(f, k) == k \in DOMAIN f /\ (k \in StringFields => f[k] # Undefined)

Pdf == "application/pdf"
Docx == "application/vnd.openxmlformats-officedocument.wordprocessingml.document"
validTypes == { Pdf, Docx }

\* the File objects the user can drop or select; FileA and FileA2 are two
\* files with the same name and the same size (two directories)
FileA   == [name |-> NameCv, size |-> 12345, type |-> Pdf, lastModified |-> 1]
FileA2  == [name |-> NameCv, size |-> 12345, type |-> Pdf, lastModified |-> 2]
FileB   == [name |-> NameMin, size |-> 0, type |-> Docx, lastModified |-> 1]
FileTxt == [name |-> << 110, 46, 116, 120, 116 >>, size |-> 5,
            type |-> "text/plain", lastModified |-> 1]
UserFiles == { FileA, FileA2, FileB, FileTxt }

MaxBatch == 2
MaxProcs == 2

\* a FileList: up to MaxBatch distinct File objects
Batches ==
    { b \in UNION { [1 .. n -> UserFiles] : n \in 1 .. MaxBatch } :
        \A m, n \in DOMAIN b : m # n => b[m] # b[n] }

\* what POST /api/cv/score can answer
ScoreResults ==
    { [candidate_id |-> 7, candidate_name |-> Null, total_score |-> Num(59) + 5],
      [candidate_id |-> 8, candidate_name |-> "Budi", total_score |-> Num(85)] }
\* the messages scoreCV can reject with: the detail of the error body,
\* the default message
ScoreErrors == { "Unsupported CV", "Failed to score CV" }

NullJob == [null |-> TRUE]
TheJob == [id |-> 1, title |-> "Backend Developer"]

\* job?.id || 1
jobIdOrDefault(jb) == IF jb = NullJob THEN 1 ELSE OrNum(jb.id, 1)

Ids == 1 .. (nextId - 1)
InList(fs, id) == \E n \in 1 .. Len(fs) : fs[n].id = id
Entry(fs, id) == fs[CHOOSE n \in 1 .. Len(fs) : fs[n].id = id]

\* an update that adds the entry when the list no longer holds it
mapFilesOrAdd(prev, fileId, upd) ==
    IF \E n \in 1 .. Len(prev) : prev[n].id = fileId
    THEN [n \in 1 .. Len(prev) |->
            IF prev[n].id = fileId THEN Merge(prev[n], upd) ELSE prev[n]]
    ELSE Append(prev, Merge([id |-> fileId], upd))

\* setFiles(prev => prev.map(f => f.id === fileId ? { ...f, ...upd } : f))
mapFiles(prev, fileId, upd) ==
    [n \in 1 .. Len(prev) |->
        IF prev[n].id = fileId THEN Merge(prev[n], upd) ELSE prev[n]]

\* prev.filter(f => f.id !== id)
filterFiles(prev, id) == SelectSeq(prev, LAMBDA f : f.id # id)

\* files.some(f => f.name === file.name && f.size === file.size)
isDuplicate(snapshot, file) ==
    \E n \in 1 .. Len(snapshot) :
        snapshot[n].name = file.name /\ snapshot[n].size = file.size

\* a string that also depends on the File object
FallbackStrModified(file) == file.name \o Decimal(file.lastModified)

\* const str = file.name + file.size.toString()
FallbackStr(file) == file.name \o Decimal(file.size)

\* the updates processFile applies to its own entry
progressUpdateHalf(i) == [progress |-> i \div 2]
progressUpdate(i) == [progress |-> i]
parsingUpdateKeepsStatus == [progress |-> 100]
parsingUpdate == [status |-> "parsing", progress |-> 100]
fallbackUpdateWithCandidate(score) ==
    [status |-> "scored", score |-> Num(score), candidateId |-> 1,
     candidateName |-> "Estimated"]
fallbackUpdate(score) == [status |-> "scored", score |-> Num(score)]
scoredUpdate(result) ==
    [status |-> "scored", score |-> result.total_score,
     candidateId |-> result.candidate_id,
     candidateName |-> Or(result.candidate_name, Undefined)]
errorUpdateNoStatus(message) == [error |-> message]
errorUpdate(message) == [status |-> "error", error |-> message]

\* processFile up to its first await, for the file at position k of a batch;
\* st is the component state under construction, snapshot the list the
\* closure captured, av and jb the backendAvailable and job it captured
processFileStart(st, file, snapshot, av, jb, first) ==
    IF file.type \notin validTypes THEN st
    ELSE IF isDuplicate(snapshot, file) THEN st
    ELSE LET fileId == st.nextId
             newFile == [id |-> fileId, name |-> file.name, size |-> file.size,
                         status |-> "uploading", progress |-> 0]
         IN  [files |-> Append(st.files, newFile),
              procs |-> Append(st.procs,
                          [file |-> file, pc |-> "upload", i |-> 0,
                           backendAvailable |-> av, job |-> jb,
                           first |-> first]),
              nextId |-> fileId + 1]

\* batch.forEach(processFile)
RECURSIVE forEachProcessFile(_, _, _, _, _, _, _)
forEachProcessFile(st, batch, k, snapshot, av, jb, first) ==
    IF k > Len(batch) THEN st
    ELSE forEachProcessFile(
            processFileStart(st, batch[k], snapshot, av, jb, first),
            batch, k + 1, snapshot, av, jb, first)

\* the component state after the handler ran forEach over the batch
AfterBatch(batch) ==
    forEachProcessFile([files |-> files, procs |-> procs, nextId |-> nextId],
                       batch, 1, files, backendAvailable, job, nextId)

nonUploadVars == << est, cls, pageVars >>
envVars == << backendHealthy >>
initVars == << backendAvailable, job, initPc >>
listVars == << files, procs, nextId >>

UploadInit ==
    /\ backendHealthy \in BOOLEAN
    /\ backendAvailable = Null
    /\ job = NullJob
    /\ initPc = "checkHealth"
    /\ isDragOver = FALSE
    /\ files = << >>
    /\ procs = << >>
    /\ nextId = 1
    /\ est = EstIdle
    /\ cls = ClsIdle
    /\ PagesIdle

\* init: const isHealthy = await api.checkHealth(); setBackendAvailable
init_checkHealth ==
    /\ initPc = "checkHealth"
    /\ backendAvailable' = Bool(backendHealthy)
    /\ initPc' = IF backendHealthy THEN "getJob" ELSE "done"
    /\ UNCHANGED << nonUploadVars, envVars, job, isDragOver, listVars >>

\* init: const jobData = await api.getJob(1); setJob(jobData)
init_getJob ==
    /\ initPc = "getJob"
    /\ job' = TheJob
    /\ initPc' = "done"
    /\ UNCHANGED << nonUploadVars, envVars, backendAvailable, isDragOver, listVars >>

\* init: api.getJob(1) rejected; catch { }
init_getJobFailed ==
    /\ initPc = "getJob"
    /\ initPc' = "done"
    /\ UNCHANGED << nonUploadVars, envVars, backendAvailable, job, isDragOver, listVars >>

handleDragOver ==
    /\ isDragOver = FALSE
    /\ isDragOver' = TRUE
    /\ UNCHANGED << nonUploadVars, envVars, initVars, listVars >>

handleDragLeave ==
    /\ isDragOver = TRUE
    /\ isDragOver' = FALSE
    /\ UNCHANGED << nonUploadVars, envVars, initVars, listVars >>

\* the batch is handled: every file of it ran processFile up to its first
\* await
BatchHandled(batch) ==
    /\ AfterBatch(batch).nextId - 1 <= MaxProcs
    /\ files' = AfterBatch(batch).files
    /\ procs' = AfterBatch(batch).procs
    /\ nextId' = AfterBatch(batch).nextId

\* a drop follows a dragover
handleDrop(batch) ==
    /\ isDragOver = TRUE
    /\ isDragOver' = FALSE
    /\ BatchHandled(batch)
    /\ UNCHANGED << nonUploadVars, envVars, initVars >>

handleFileSelect(batch) ==
    /\ isDragOver = FALSE
    /\ BatchHandled(batch)
    /\ UNCHANGED << nonUploadVars, envVars, initVars, isDragOver >>

removeFile(id) ==
    /\ InList(files, id)
    /\ files' = filterFiles(files, id)
    /\ UNCHANGED << nonUploadVars, envVars, initVars, isDragOver, procs, nextId >>

\* an iteration of the upload loop that is not the last:
\*   await timeout(100); setFiles(progress: i); i += 25
processFile_progress(id) ==
    /\ id \in Ids
    /\ procs[id].pc = "upload"
    /\ procs[id].i < 100
    /\ files' = mapFiles(files, id, progressUpdate(procs[id].i))
    /\ procs' = [procs EXCEPT ![id].i = @ + 25]
    /\ UNCHANGED << nonUploadVars, envVars, initVars, isDragOver, nextId >>

\* the last iteration, the update to 'parsing' and the branch on
\* backendAvailable, up to the next await
processFile_parsing(id) ==
    /\ id \in Ids
    /\ procs[id].pc = "upload"
    /\ procs[id].i = 100
    /\ files' = mapFiles(mapFiles(files, id, progressUpdate(procs[id].i)),
                         id, parsingUpdate)
    /\ procs' = IF Falsy(procs[id].backendAvailable)
                THEN [procs EXCEPT ![id] = Merge(@, [pc |-> "fallback", i |-> 125])]
                ELSE [procs EXCEPT ![id] =
                        Merge(@, [pc |-> "scoreCV", i |-> 125,
                                  request |-> [jobId |-> jobIdOrDefault(procs[id].job),
                                               save |-> TRUE]])]
    /\ UNCHANGED << nonUploadVars, envVars, initVars, isDragOver, nextId >>

\* the hash loop and the score line of the fallback branch, tabulated over
\* the files the user can hand over
fallbackHash == [file \in UserFiles |-> HashLoop(FallbackStr(file))]
fallbackScore == [file \in UserFiles |-> FallbackScore(fallbackHash[file])]

\* the fallback simulation after its 1500 ms wait
processFile_fallback(id) ==
    /\ id \in Ids
    /\ procs[id].pc = "fallback"
    /\ LET hash  == fallbackHash[procs[id].file]
           score == fallbackScore[procs[id].file]
       IN  /\ files' = mapFiles(files, id, fallbackUpdate(score))
           /\ procs' = [procs EXCEPT ![id] =
                            Merge(@, [pc |-> "doneFallback", hash |-> hash,
                                      score |-> score])]
    /\ UNCHANGED << nonUploadVars, envVars, initVars, isDragOver, nextId >>

\* api.scoreCV resolved
processFile_scored(id, result) ==
    /\ id \in Ids
    /\ procs[id].pc = "scoreCV"
    /\ files' = mapFiles(files, id, scoredUpdate(result))
    /\ procs' = [procs EXCEPT ![id].pc = "doneBackend"]
    /\ UNCHANGED << nonUploadVars, envVars, initVars, isDragOver, nextId >>

\* a catch that marks every entry of the list
processFile_errorAll(id, message) ==
    /\ id \in Ids
    /\ procs[id].pc = "scoreCV"
    /\ files' = [n \in 1 .. Len(files) |-> Merge(files[n], errorUpdate(message))]
    /\ procs' = [procs EXCEPT ![id].pc = "doneError"]
    /\ UNCHANGED << nonUploadVars, envVars, initVars, isDragOver, nextId >>

\* api.scoreCV rejected: catch (error)
processFile_error(id, message) ==
    /\ id \in Ids
    /\ procs[id].pc = "scoreCV"
    /\ files' = mapFiles(files, id, errorUpdate(message))
    /\ procs' = [procs EXCEPT ![id].pc = "doneError"]
    /\ UNCHANGED << nonUploadVars, envVars, initVars, isDragOver, nextId >>

ProcStep(id) ==
    \/ processFile_progress(id)
    \/ processFile_parsing(id)
    \/ processFile_fallback(id)
    \/ \E result \in ScoreResults : processFile_scored(id, result)
    \/ \E message \in ScoreErrors : processFile_error(id, message)

UploadNext ==
    \/ init_checkHealth
    \/ init_getJob
    \/ init_getJobFailed
    \/ handleDragOver
    \/ handleDragLeave
    \/ \E batch \in Batches : handleDrop(batch)
    \/ \E batch \in Batches : handleFileSelect(batch)
    \/ \E id \in 1 .. MaxProcs + 1 : removeFile(id)
    \/ \E id \in 1 .. MaxProcs + 1 : ProcStep(id)

\* timers fire and api.scoreCV settles
UploadFairness == \A id \in 1 .. MaxProcs : WF_uploadVars(ProcStep(id))

(***************************************************************************)
(* The score classifiers                                                   *)
(***************************************************************************)
\* Dashboard: function getScoreClass(score)
Dashboard_getScoreClass(score) ==
    IF score >= Num(80) THEN "high"
    ELSE IF score >= Num(60) THEN "medium"
    ELSE "low"

\* CandidateDetail: function getScoreClass(score)
CandidateDetail_getScoreClass(score) ==
    IF score >= Num(80) THEN "high"
    ELSE IF score >= Num(60) THEN "medium"
    ELSE "low"

getScoreColorStrict(score) ==
    IF score > Num(80) THEN "var(--color-success)"
    ELSE IF score > Num(60) THEN "var(--color-warning)"
    ELSE "var(--color-danger)"

\* UploadCV: function getScoreColor(score)
getScoreColor(score) ==
    IF score >= Num(80) THEN "var(--color-success)"
    ELSE IF score >= Num(60) THEN "var(--color-warning)"
    ELSE "var(--color-danger)"

\* UploadCV: function getStatusTag(status, error): the class, the label and
\* the title of the tag
getStatusTag(status, error) ==
    CASE status = "scored" -> [class |-> "tag tag-green", label |-> "Scored", title |-> Undefined]
      [] status = "parsing" -> [class |-> "tag tag-purple", label |-> "Parsing...", title |-> Undefined]
      [] status = "uploading" -> [class |-> "tag tag-purple", label |-> "Uploading...", title |-> Undefined]
      [] status = "error" -> [class |-> "tag tag-red", label |-> "Error", title |-> error]
      [] OTHER -> [class |-> "tag tag-gray", label |-> "Pending", title |-> Undefined]

\* the row of the upload list: to={file.candidateId ? `/candidate/${id}` : '#'}
scoreLink(f) ==
    IF "candidateId" \in DOMAIN f /\ ~FalsyNum(f.candidateId)
    THEN << "/candidate/", f.candidateId >> ELSE << "#" >>

\* scores from 0 to MaxScore, in steps of 1/Scale
MaxScore == 100
Scores == 0 .. Num(MaxScore)

ClsInit ==
    /\ UploadIdle
    /\ PagesIdle
    /\ est = EstIdle
    /\ cls = ClsIdle

\* the three views render the same score
Classify(score) ==
    /\ cls' = [pc |-> "done", score |-> score,
               dashboard |-> Dashboard_getScoreClass(score),
               detail |-> CandidateDetail_getScoreClass(score),
               upload |-> getScoreColor(score)]
    /\ UNCHANGED << est, uploadVars, pageVars >>

ClsNext == \E score \in Scores : Classify(score)

(***************************************************************************)
(* CandidateDetail                                                         *)
(***************************************************************************)
\* Candidate['status']
Statuses == { "review", "shortlisted", "interview", "rejected" }

\* the statuses the action buttons of the view pass to handleStatusUpdate
ButtonStatuses == { "shortlisted", "interview", "rejected" }

NullCandidate == [null |-> TRUE]
NoCall == [pc |-> "none"]
NoUpdate == [outcome |-> "none"]

\* the candidates GET /api/candidates/{id} can answer with
StoredCandidates ==
    { [id |-> 1, name |-> "Budi", total_score |-> Num(85), status |-> st,
       score_breakdown |-> "breakdown of 1", parsed_data |-> "parsed data of 1"] :
         st \in Statuses }
    \cup
    { [id |-> 2, name |-> Null, total_score |-> Num(59) + 5, status |-> st,
       score_breakdown |-> "breakdown of 2", parsed_data |-> "parsed data of 2"] :
         st \in Statuses }

\* a candidate with every field but the status replaced
withStatusOnly(candidate, status) ==
    [id |-> 0, name |-> Null, total_score |-> 0, status |-> status,
     score_breakdown |-> "", parsed_data |-> ""]

\* { ...candidate, status: status as Candidate['status'] }
withStatus(candidate, status) == Merge(candidate, [status |-> status])

\* the view renders the action buttons: not loading, no error, a candidate
buttonsShown ==
    /\ detail.pc = "mounted"
    /\ ~detail.loading
    /\ detail.error = Null
    /\ detail.candidate # NullCandidate

\* a button that is disabled for the current status only
buttonDisabledStatusOnly(status) == detail.candidate.status = status

\* disabled={updating || candidate.status === status}
buttonDisabled(status) == detail.updating \/ detail.candidate.status = status

DetailInit ==
    /\ UploadIdle
    /\ est = EstIdle
    /\ cls = ClsIdle
    /\ template = [pc |-> "idle"]
    /\ dashboard = [pc |-> "idle"]
    /\ bundled = BundledIdle
    /\ \E stored \in StoredCandidates :
          detail = [pc |-> "mounted", server |-> stored, fetching |-> TRUE,
                    candidate |-> NullCandidate, loading |-> TRUE, error |-> Null,
                    updating |-> FALSE, call |-> NoCall, last |-> NoUpdate]

detailOthers == << est, cls, uploadVars, template, dashboard, bundled >>

\* fetchCandidate: api.getCandidate resolved
fetchCandidate_resolved ==
    /\ detail.pc = "mounted"
    /\ detail.fetching
    /\ detail' = [detail EXCEPT !.fetching = FALSE,
                                !.candidate = detail.server,
                                !.loading = FALSE]
    /\ UNCHANGED detailOthers

\* fetchCandidate: api.getCandidate rejected
fetchCandidate_rejected ==
    /\ detail.pc = "mounted"
    /\ detail.fetching
    /\ detail' = [detail EXCEPT !.fetching = FALSE,
                                !.error = "Candidate not found",
                                !.loading = FALSE]
    /\ UNCHANGED detailOthers

\* a click on an action button: handleStatusUpdate up to its await
handleStatusUpdate(status) ==
    /\ buttonsShown
    /\ status \in ButtonStatuses
    /\ ~buttonDisabled(status)
    /\ detail' = [detail EXCEPT !.updating = TRUE,
                                !.call = [pc |-> "put", candidate |-> detail.candidate,
                                          id |-> detail.candidate.id, status |-> status]]
    /\ UNCHANGED detailOthers

\* PUT /api/candidates/{id}/status answered ok: the backend stored the status
updateCandidateStatus_accepted ==
    /\ detail.pc = "mounted"
    /\ detail.call.pc = "put"
    /\ detail' = [detail EXCEPT !.server = withStatus(@, detail.call.status),
                                !.call.pc = "resolved"]
    /\ UNCHANGED detailOthers

\* an answer that is taken for ok although the backend stored nothing
updateCandidateStatus_unchecked ==
    /\ detail.pc = "mounted"
    /\ detail.call.pc = "put"
    /\ detail' = [detail EXCEPT !.call.pc = "resolved"]
    /\ UNCHANGED detailOthers

\* the answer is not ok: throw new Error('Failed to update status')
updateCandidateStatus_refused ==
    /\ detail.pc = "mounted"
    /\ detail.call.pc = "put"
    /\ detail' = [detail EXCEPT !.call.pc = "rejected"]
    /\ UNCHANGED detailOthers

\* the backend stored the status and the answer was lost: fetch rejects
updateCandidateStatus_lost ==
    /\ detail.pc = "mounted"
    /\ detail.call.pc = "put"
    /\ detail' = [detail EXCEPT !.server = withStatus(@, detail.call.status),
                                !.call.pc = "rejected"]
    /\ UNCHANGED detailOthers

\* handleStatusUpdate after the await: setCandidate, finally setUpdating(false)
handleStatusUpdate_resolved ==
    /\ detail.pc = "mounted"
    /\ detail.call.pc = "resolved"
    /\ detail' = [detail EXCEPT
                    !.candidate = withStatus(detail.call.candidate, detail.call.status),
                    !.updating = FALSE,
                    !.call = NoCall,
                    !.last = [outcome |-> "ok", before |-> detail.call.candidate,
                              status |-> detail.call.status]]
    /\ UNCHANGED detailOthers

\* handleStatusUpdate: catch (alert), finally setUpdating(false)
handleStatusUpdate_rejected ==
    /\ detail.pc = "mounted"
    /\ detail.call.pc = "rejected"
    /\ detail' = [detail EXCEPT
                    !.updating = FALSE,
                    !.call = NoCall,
                    !.last = [outcome |-> "failed", before |-> detail.call.candidate,
                              status |-> detail.call.status]]
    /\ UNCHANGED detailOthers

DetailNext ==
    \/ fetchCandidate_resolved
    \/ fetchCandidate_rejected
    \/ \E status \in Statuses : handleStatusUpdate(status)
    \/ updateCandidateStatus_accepted
    \/ updateCandidateStatus_refused
    \/ updateCandidateStatus_lost
    \/ handleStatusUpdate_resolved
    \/ handleStatusUpdate_rejected

(***************************************************************************)
(* JobTemplate                                                             *)
(***************************************************************************)
\* A text that the code splits and joins is held as a sequence of tokens:
\* a word, "," or " ".  A skill, a title or a provider is one string.
EmptyText == << >>

\* arr.join(', ')
Join(list) ==
    LET joined[k \in 0 .. Len(list)] ==
            IF k = 0 THEN EmptyText
            ELSE IF k = 1 THEN list[1]
            ELSE joined[k - 1] \o << ",", " " >> \o list[k]
    IN  joined[Len(list)]

\* text.split(',')
Split(text) ==
    LET commas == { i \in 1 .. Len(text) : text[i] = "," }
        count  == Cardinality(commas) + 1
        comma(n) == CHOOSE i \in commas : Cardinality({ j \in commas : j < i }) = n - 1
        from(n) == IF n = 1 THEN 1 ELSE comma(n - 1) + 1
        to(n)   == IF n = count THEN Len(text) ELSE comma(n) - 1
    IN  [n \in 1 .. count |-> SubSeq(text, from(n), to(n))]

\* s.trim()
Trim(s) ==
    LET inked == { i \in 1 .. Len(s) : s[i] # " " }
    IN  IF inked = { } THEN EmptyText
        ELSE SubSeq(s, CHOOSE i \in inked : \A j \in inked : i <= j,
                       CHOOSE i \in inked : \A j \in inked : i >= j)

\* text.split(',').map(s => s.trim()).filter(Boolean)
SplitTrimmed(text) ==
    SelectSeq([n \in 1 .. Len(Split(text)) |-> Trim(Split(text)[n])],
              LAMBDA s : s # EmptyText)

\* text || ''
OrText(text, other) == IF text = EmptyText THEN other ELSE text

WeightKeys == { "education", "experience", "skills", "bootcamp", "portfolio", "location" }

\* useState<WeightState>({ education: 15, ... })
defaultWeights ==
    [education |-> 15, experience |-> 25, skills |-> 40,
     bootcamp |-> 10, portfolio |-> 15, location |-> 5]

\* a range that also offers negative values
sliderRangeSigned(key) ==
    CASE key = "education" -> [min |-> -50, max |-> 50]
      [] key = "skills" -> [min |-> -100, max |-> 100]
      [] key = "bootcamp" -> [min |-> -50, max |-> 50]

\* <input type="range" min="0" max="50" | "100">: the weights with a slider
sliderRange(key) ==
    CASE key = "education" -> [min |-> 0, max |-> 50]
      [] key = "skills" -> [min |-> 0, max |-> 100]
      [] key = "bootcamp" -> [min |-> 0, max |-> 50]
SliderKeys == { "education", "skills", "bootcamp" }

\* parseInt(e.target.value): the ends of the range
SliderValues(key) == { sliderRange(key).min, sliderRange(key).max }

\* the jobs GET /api/jobs/{id} can answer with
JobA ==
    [id |-> 1, title |-> "Backend Developer", department |-> "Engineering",
     requirements |->
       [education |-> [min_level |-> "S2",
                       preferred_major |-> << << "Informatika" >>,
                                              << "Teknik", " ", "Komputer" >> >>,
                       weight |-> 20],
        experience |-> [min_years |-> 2,
                        relevant_titles |-> << "Developer", "Engineer", "Programmer" >>,
                        weight |-> 20],
        skills |-> [required |-> << "Python", "SQL" >>, preferred |-> << "Docker" >>,
                    weight |-> 30],
        bootcamp |-> [preferred_providers |-> << "Hacktiv8" >>, weight |-> 10],
        portfolio |-> [required |-> TRUE, preferred_platforms |-> << "github" >>,
                       min_projects |-> 1, weight |-> 15],
        location |-> [allowed |-> << << "Jakarta" >>, << "Remote" >> >>, weight |-> 5]]]

JobMixed ==
    [id |-> 1, title |-> "Data Scientist", department |-> "Data",
     requirements |->
       [education |-> [min_level |-> "S1", preferred_major |-> << << "Statistika" >> >>,
                       weight |-> 0],
        experience |-> [min_years |-> 0,
                        relevant_titles |-> << "Data Scientist" >>,
                        weight |-> 40],
        skills |-> [required |-> << "Python" >>, preferred |-> << >>, weight |-> 40],
        bootcamp |-> [preferred_providers |-> << >>, weight |-> 0],
        portfolio |-> [required |-> FALSE, preferred_platforms |-> << "github" >>,
                       min_projects |-> 0, weight |-> 15],
        location |-> [allowed |-> << << "Remote" >> >>, weight |-> 5]]]

JobZero ==
    [id |-> 2, title |-> "Intern", department |-> "Engineering",
     requirements |->
       [education |-> [min_level |-> "", preferred_major |-> << >>, weight |-> 0],
        experience |-> [min_years |-> 0, relevant_titles |-> << >>, weight |-> 0],
        skills |-> [required |-> << >>, preferred |-> << >>, weight |-> 0],
        bootcamp |-> [preferred_providers |-> << >>, weight |-> 0],
        portfolio |-> [required |-> FALSE, preferred_platforms |-> << >>,
                       min_projects |-> 0, weight |-> 0],
        location |-> [allowed |-> << >>, weight |-> 0]]]

ServerJobs == { JobA, JobMixed, JobZero }
NoJob == [null |-> TRUE]
NoRequest == [null |-> TRUE]

\* the route parameter id: 0 stands for /job-template, without a parameter
RouteIds == { 0, 1, 2 }
isEditing(id) == id # 0

\* what the user types into the two skill inputs
SkillTexts == { "python", "docker" }

\* the user edits of one visit of the page
MaxEdits == 3

\* the state loadJobData sets
loadJobData(jobData) ==
    LET req == jobData.requirements
    IN  [title |-> jobData.title,
         department |-> jobData.department,
         weights |-> [education |-> OrNum(req.education.weight, 15),
                      experience |-> OrNum(req.experience.weight, 25),
                      skills |-> OrNum(req.skills.weight, 40),
                      bootcamp |-> OrNum(req.bootcamp.weight, 10),
                      portfolio |-> OrNum(req.portfolio.weight, 15),
                      location |-> OrNum(req.location.weight, 5)],
         educationLevel |-> Or(req.education.min_level, "S1"),
         educationMajors |-> OrText(Join(req.education.preferred_major), EmptyText),
         experienceYears |-> OrNum(req.experience.min_years, 3),
         requiredSkills |-> req.skills.required,
         preferredSkills |-> req.skills.preferred,
         bootcampProviders |-> req.bootcamp.preferred_providers,
         portfolioPlatforms |-> req.portfolio.preferred_platforms,
         minProjects |-> OrNum(req.portfolio.min_projects, 2),
         allowedLocations |-> OrText(Join(req.location.allowed), EmptyText)]

\* const buildRequirements = (): JobRequirements => ({ ... })
buildRequirements(t) ==
    [education |-> [min_level |-> t.educationLevel,
                    preferred_major |-> SplitTrimmed(t.educationMajors),
                    weight |-> t.weights.education],
     experience |-> [min_years |-> t.experienceYears,
                     relevant_titles |-> << "Developer", "Engineer", "Programmer" >>,
                     weight |-> t.weights.experience],
     skills |-> [required |-> t.requiredSkills,
                 preferred |-> t.preferredSkills,
                 weight |-> t.weights.skills],
     bootcamp |-> [preferred_providers |-> t.bootcampProviders,
                   weight |-> t.weights.bootcamp],
     portfolio |-> [required |-> TRUE,
                    preferred_platforms |-> t.portfolioPlatforms,
                    min_projects |-> t.minProjects,
                    weight |-> t.weights.portfolio],
     location |-> [allowed |-> SplitTrimmed(t.allowedLocations),
                   weight |-> t.weights.location]]

\* a sum that leaves the last weight out
totalWeightPartial(weights) ==
    weights.education + weights.experience + weights.skills
        + weights.bootcamp + weights.portfolio

\* Object.values(weights).reduce((a, b) => a + b, 0), in the order of the keys
totalWeight(weights) ==
    LET values == << weights.education, weights.experience, weights.skills,
                     weights.bootcamp, weights.portfolio, weights.location >>
        reduce[k \in 0 .. Len(values)] ==
            IF k = 0 THEN 0 ELSE reduce[k - 1] + values[k]
    IN  reduce[Len(values)]

\* if (loading) return <Loader/> ... {totalWeight !== 100 && (<warning/>)}
warningShown(t) == ~t.loading /\ totalWeight(t.weights) # 100

\* arr.includes(x)
includes(list, x) == \E n \in 1 .. Len(list) : list[n] = x

TemplateInit ==
    /\ UploadIdle
    /\ est = EstIdle
    /\ cls = ClsIdle
    /\ detail = [pc |-> "idle"]
    /\ dashboard = [pc |-> "idle"]
    /\ bundled = BundledIdle
    /\ \E healthy \in BOOLEAN, id \in RouteIds :
          template =
            [pc |-> "mounted", healthy |-> healthy, id |-> id,
             initPc |-> "checkHealth", initId |-> id,
             loading |-> TRUE, saving |-> FALSE, backendAvailable |-> Null,
             title |-> "Backend Developer", department |-> "Engineering",
             weights |-> defaultWeights,
             educationLevel |-> "S1",
             educationMajors |-> << "Informatika", ",", " ", "Teknik", " ", "Komputer",
                                    ",", " ", "Sistem", " ", "Informasi" >>,
             experienceYears |-> 3,
             requiredSkills |-> << "Python", "SQL", "REST API" >>,
             preferredSkills |-> << "Docker", "AWS", "PostgreSQL" >>,
             bootcampProviders |-> << "Hacktiv8", "Binar Academy", "Dicoding" >>,
             portfolioPlatforms |-> << "github", "gitlab", "personal_website" >>,
             minProjects |-> 2,
             allowedLocations |-> << "Jakarta", ",", " ", "Bandung", ",", " ", "Remote" >>,
             newRequiredSkill |-> "", newPreferredSkill |-> "",
             loaded |-> NoJob, save |-> NoCall, sent |-> NoRequest, edits |-> 0]

templateOthers == << est, cls, uploadVars, detail, dashboard, bundled >>

\* a user edit: the state it sets; the page no longer shows the job as loaded
Edited(changes) ==
    /\ template.pc = "mounted"
    /\ ~template.loading
    /\ template.edits < MaxEdits
    /\ template' = Merge(Merge(template, changes),
                         [loaded |-> NoJob, edits |-> template.edits + 1])
    /\ UNCHANGED templateOthers

\* init: const isHealthy = await api.checkHealth(); setBackendAvailable
template_init_checkHealth ==
    /\ template.pc = "mounted"
    /\ template.initPc = "checkHealth"
    /\ template' = Merge(template,
          IF template.healthy
          THEN [backendAvailable |-> "true", initPc |-> "getJob"]
          ELSE [backendAvailable |-> "false", initPc |-> "done", loading |-> FALSE])
    /\ UNCHANGED templateOthers

\* init: api.getJob(isEditing ? parseInt(id) : 1) resolved; loadJobData(jobData)
template_init_getJob(jobData) ==
    /\ template.pc = "mounted"
    /\ template.initPc = "getJob"
    /\ jobData.id = (IF isEditing(template.initId) THEN template.initId ELSE 1)
    /\ template' = Merge(Merge(template, loadJobData(jobData)),
                         [initPc |-> "done", loading |-> FALSE, loaded |-> jobData])
    /\ UNCHANGED templateOthers

\* init: api.getJob rejected; catch { }
template_init_getJobFailed ==
    /\ template.pc = "mounted"
    /\ template.initPc = "getJob"
    /\ template' = Merge(template, [initPc |-> "done", loading |-> FALSE])
    /\ UNCHANGED templateOthers

\* setWeights(prev => ({ ...prev, [key]: value }))
handleWeightChange(key, value) ==
    /\ key \in SliderKeys
    /\ value \in SliderValues(key)
    /\ Edited([weights |-> [template.weights EXCEPT ![key] = value]])

setNewRequiredSkill(text) == Edited([newRequiredSkill |-> text])

setNewPreferredSkill(text) == Edited([newPreferredSkill |-> text])

addRequiredSkill ==
    /\ ~Falsy(template.newRequiredSkill)
    /\ ~includes(template.requiredSkills, template.newRequiredSkill)
    /\ Edited([requiredSkills |-> Append(template.requiredSkills, template.newRequiredSkill),
               newRequiredSkill |-> ""])

addPreferredSkill ==
    /\ ~Falsy(template.newPreferredSkill)
    /\ ~includes(template.preferredSkills, template.newPreferredSkill)
    /\ Edited([preferredSkills |-> Append(template.preferredSkills, template.newPreferredSkill),
               newPreferredSkill |-> ""])

\* a click on the tag of a skill of the list
removeSkill(skill, type) ==
    IF type = "required"
    THEN /\ includes(template.requiredSkills, skill)
         /\ Edited([requiredSkills |->
                      SelectSeq(template.requiredSkills, LAMBDA s : s # skill)])
    ELSE /\ includes(template.preferredSkills, skill)
         /\ Edited([preferredSkills |->
                      SelectSeq(template.preferredSkills, LAMBDA s : s # skill)])

\* handleSave up to its await; the button is disabled while saving
handleSave ==
    /\ template.pc = "mounted"
    /\ ~template.loading
    /\ ~template.saving
    /\ IF Falsy(template.backendAvailable)
       THEN template' = template
       ELSE template' = Merge(template,
              [saving |-> TRUE,
               save |-> [pc |-> "sent", editing |-> isEditing(template.id)],
               sent |-> [title |-> template.title, department |-> template.department,
                         requirements |-> buildRequirements(template),
                         weights |-> template.weights]])
    /\ UNCHANGED templateOthers

\* api.updateJob / api.createJob resolved: navigate('/job-template/1'), the
\* effect on [id] runs init again if the id changed; finally setSaving(false)
handleSave_resolved ==
    /\ template.pc = "mounted"
    /\ template.save.pc = "sent"
    /\ template' = Merge(template,
          IF template.id = 1
          THEN [saving |-> FALSE, save |-> NoCall]
          ELSE [saving |-> FALSE, save |-> NoCall, id |-> 1,
                initPc |-> "checkHealth", initId |-> 1])
    /\ UNCHANGED templateOthers

\* api.updateJob / api.createJob rejected: catch (alert), finally
handleSave_rejected ==
    /\ template.pc = "mounted"
    /\ template.save.pc = "sent"
    /\ template' = Merge(template, [saving |-> FALSE, save |-> NoCall])
    /\ UNCHANGED templateOthers

TemplateNext ==
    \/ template_init_checkHealth
    \/ \E jobData \in ServerJobs : template_init_getJob(jobData)
    \/ template_init_getJobFailed
    \/ \E key \in SliderKeys : \E value \in SliderValues(key) :
          handleWeightChange(key, value)
    \/ \E text \in SkillTexts : setNewRequiredSkill(text)
    \/ \E text \in SkillTexts : setNewPreferredSkill(text)
    \/ addRequiredSkill
    \/ addPreferredSkill
    \/ \E skill \in { "Python", "SQL", "REST API", "Docker", "AWS", "PostgreSQL",
                      "python", "docker" },
          type \in { "required", "preferred" } : removeSkill(skill, type)
    \/ handleSave
    \/ handleSave_resolved
    \/ handleSave_rejected

(***************************************************************************)
(* Dashboard                                                               *)
(***************************************************************************)
\* the values of the score filter select, as character codes:
\* "", "80-100", "60-79", "0-59"
AllScores == << >>
Option80to100 == << 56, 48, 45, 49, 48, 48 >>
Option60to79 == << 54, 48, 45, 55, 57 >>
Option0to59 == << 48, 45, 53, 57 >>
ScoreFilterOptions == { Option80to100, Option60to79, Option0to59 }

\* the values of the status filter select the user picks in the model
StatusFilterOptions == { "", "shortlisted" }

\* what the user types into the search input
SearchTexts == { "", "budi" }

\* str.split('-')
SplitDash(str) ==
    LET dashes == { i \in 1 .. Len(str) : str[i] = 45 }
        count  == Cardinality(dashes) + 1
        dash(n) == CHOOSE i \in dashes : Cardinality({ j \in dashes : j < i }) = n - 1
        from(n) == IF n = 1 THEN 1 ELSE dash(n - 1) + 1
        to(n)   == IF n = count THEN Len(str) ELSE dash(n) - 1
    IN  [n \in 1 .. count |-> SubSeq(str, from(n), to(n))]

\* Number(str) of a string of decimal digits; Number('') is 0
ToNumber(str) ==
    LET value[k \in 0 .. Len(str)] ==
            IF k = 0 THEN 0 ELSE 10 * value[k - 1] + (str[k] - 48)
    IN  value[Len(str)]

EmptyObject == [k \in { } |-> 0]

\* fetchData: the filters built from the state the call captured
buildFilters(statusFilter, searchQuery, scoreFilter) ==
    LET parts == [n \in 1 .. Len(SplitDash(scoreFilter)) |->
                     ToNumber(SplitDash(scoreFilter)[n])]
    IN  Merge(Merge(IF ~Falsy(statusFilter) THEN [status |-> statusFilter]
                    ELSE EmptyObject,
                    IF ~Falsy(searchQuery) THEN [search |-> searchQuery]
                    ELSE EmptyObject),
              IF scoreFilter # AllScores
              THEN [min_score |-> parts[1], max_score |-> parts[2]]
              ELSE EmptyObject)

\* api.getCandidates: the parameters appended to the query string
getCandidatesParams(filters) ==
    [k \in { key \in DOMAIN filters :
               IF key \in { "job_id", "min_score", "max_score" }
               THEN ~FalsyNum(filters[key]) ELSE ~Falsy(filters[key]) } |->
        IF k \in { "job_id", "min_score", "max_score" }
        THEN Decimal(filters[k]) ELSE filters[k]]

\* the candidates GET /api/candidates can list
ListedCandidates ==
    { [id |-> 1, name |-> "Budi", total_score |-> Num(90), status |-> "shortlisted"],
      [id |-> 2, name |-> Null, total_score |-> Num(59) + 5, status |-> "rejected"],
      [id |-> 3, name |-> "Citra", total_score |-> Num(60), status |-> "review"] }

\* the longest list the backend answers with
MaxListed == 2

\* the lists GET /api/candidates can answer with: the backend is not part of
\* the source, any order is possible
CandidateLists ==
    { l \in UNION { [1 .. n -> ListedCandidates] : n \in 0 .. MaxListed } :
        \A m, n \in DOMAIN l : m # n => l[m] # l[n] }

\* the answers of GET /api/stats
StatsAnswers == { [total_candidates |-> 2], [total_candidates |-> 3] }
NullStats == [null |-> TRUE]

\* the fetchData calls of one visit of the page
MaxFetches == 2

\* the rows of the table: candidates.map((candidate, index) => ...)
tableRows(candidates) ==
    [index \in 1 .. Len(candidates) |->
        [rank |-> index,
         id |-> candidates[index].id,
         total_score |-> candidates[index].total_score]]

\* fetchData up to its first await, with the state the closure captured
fetchDataStart(d) ==
    Merge(d, [loading |-> TRUE,
              error |-> Null,
              calls |-> Append(d.calls,
                          [pc |-> "health", statusFilter |-> d.statusFilter,
                           searchQuery |-> d.searchQuery,
                           scoreFilter |-> d.scoreFilter])])

DashboardInit ==
    /\ UploadIdle
    /\ est = EstIdle
    /\ cls = ClsIdle
    /\ detail = [pc |-> "idle"]
    /\ template = [pc |-> "idle"]
    /\ bundled = BundledIdle
    /\ dashboard = fetchDataStart(
          [pc |-> "mounted", candidates |-> << >>, stats |-> NullStats,
           loading |-> TRUE, error |-> Null, backendAvailable |-> Null,
           searchQuery |-> "", statusFilter |-> "", scoreFilter |-> AllScores,
           calls |-> << >>, shown |-> 0])

dashboardOthers == << est, cls, uploadVars, detail, template, bundled >>

canFetch == dashboard.pc = "mounted" /\ Len(dashboard.calls) < MaxFetches

\* onChange of the search input
setSearchQuery(text) ==
    /\ dashboard.pc = "mounted"
    /\ text # dashboard.searchQuery
    /\ dashboard' = Merge(dashboard, [searchQuery |-> text])
    /\ UNCHANGED dashboardOthers

\* onChange of the status select; the effect on [statusFilter, scoreFilter]
\* calls fetchData
setStatusFilter(value) ==
    /\ canFetch
    /\ value # dashboard.statusFilter
    /\ dashboard' = fetchDataStart(Merge(dashboard, [statusFilter |-> value]))
    /\ UNCHANGED dashboardOthers

\* onChange of the score select; the effect calls fetchData
setScoreFilter(value) ==
    /\ canFetch
    /\ value # dashboard.scoreFilter
    /\ dashboard' = fetchDataStart(Merge(dashboard, [scoreFilter |-> value]))
    /\ UNCHANGED dashboardOthers

\* onSubmit of the search form
handleSearch ==
    /\ canFetch
    /\ dashboard' = fetchDataStart(dashboard)
    /\ UNCHANGED dashboardOthers

\* onClick of Refresh, disabled={loading}
refresh ==
    /\ canFetch
    /\ ~dashboard.loading
    /\ dashboard' = fetchDataStart(dashboard)
    /\ UNCHANGED dashboardOthers

\* a health check whose unhealthy answer also empties the table
fetchData_checkHealthClears(n, isHealthy) ==
    /\ dashboard.pc = "mounted"
    /\ n \in 1 .. Len(dashboard.calls)
    /\ dashboard.calls[n].pc = "health"
    /\ dashboard' =
         IF ~isHealthy
         THEN Merge(dashboard,
                [backendAvailable |-> "false",
                 error |-> "Backend tidak tersedia",
                 candidates |-> << >>,
                 loading |-> FALSE,
                 calls |-> [dashboard.calls EXCEPT ![n] =
                    Merge(@, [pc |-> "done", outcome |-> "unhealthy"])]])
         ELSE Merge(dashboard,
                [backendAvailable |-> "true",
                 calls |-> [dashboard.calls EXCEPT ![n] =
                    Merge(@, [pc |-> "data",
                              query |-> getCandidatesParams(
                                  buildFilters(@.statusFilter, @.searchQuery,
                                               @.scoreFilter))])]])
    /\ UNCHANGED dashboardOthers

\* fetchData after await api.checkHealth()
fetchData_checkHealth(n, isHealthy) ==
    /\ dashboard.pc = "mounted"
    /\ n \in 1 .. Len(dashboard.calls)
    /\ dashboard.calls[n].pc = "health"
    /\ dashboard' =
         IF ~isHealthy
         THEN Merge(dashboard,
                [backendAvailable |-> "false",
                 error |-> "Backend tidak tersedia",
                 loading |-> FALSE,
                 calls |-> [dashboard.calls EXCEPT ![n] =
                    Merge(@, [pc |-> "done", outcome |-> "unhealthy"])]])
         ELSE Merge(dashboard,
                [backendAvailable |-> "true",
                 calls |-> [dashboard.calls EXCEPT ![n] =
                    Merge(@, [pc |-> "data",
                              query |-> getCandidatesParams(
                                  buildFilters(@.statusFilter, @.searchQuery,
                                               @.scoreFilter))])]])
    /\ UNCHANGED dashboardOthers

\* Promise.all([api.getStats(), api.getCandidates(filters)]) resolved
fetchData_resolved(n, statsData, candidatesData) ==
    /\ dashboard.pc = "mounted"
    /\ n \in 1 .. Len(dashboard.calls)
    /\ dashboard.calls[n].pc = "data"
    /\ dashboard' = Merge(dashboard,
          [stats |-> statsData,
           candidates |-> candidatesData,
           loading |-> FALSE,
           shown |-> n,
           calls |-> [dashboard.calls EXCEPT ![n] =
              Merge(@, [pc |-> "done", outcome |-> "resolved"])]])
    /\ UNCHANGED dashboardOthers

\* one of the two requests rejected: catch, finally
fetchData_rejected(n, message) ==
    /\ dashboard.pc = "mounted"
    /\ n \in 1 .. Len(dashboard.calls)
    /\ dashboard.calls[n].pc = "data"
    /\ dashboard' = Merge(dashboard,
          [error |-> message,
           loading |-> FALSE,
           calls |-> [dashboard.calls EXCEPT ![n] =
              Merge(@, [pc |-> "done", outcome |-> "rejected"])]])
    /\ UNCHANGED dashboardOthers

DashboardNext ==
    \/ \E text \in SearchTexts : setSearchQuery(text)
    \/ \E value \in StatusFilterOptions : setStatusFilter(value)
    \/ \E value \in ScoreFilterOptions \cup { AllScores } : setScoreFilter(value)
    \/ handleSearch
    \/ refresh
    \/ \E n \in 1 .. MaxFetches, isHealthy \in BOOLEAN : fetchData_checkHealth(n, isHealthy)
    \/ \E n \in 1 .. MaxFetches, statsData \in StatsAnswers,
          candidatesData \in CandidateLists :
          fetchData_resolved(n, statsData, candidatesData)
    \/ \E n \in 1 .. MaxFetches :
          \E message \in { "Failed to fetch stats", "Failed to fetch candidates" } :
             fetchData_rejected(n, message)

\* the bounds of the score filter options, next to the class of a score
ScoreBand(score) ==
    /\ cls.pc = "idle"
    /\ cls' = [pc |-> "banded", score |-> score,
               class |-> Dashboard_getScoreClass(score),
               filters |-> [option \in ScoreFilterOptions |->
                               buildFilters("", "", option)]]
    /\ UNCHANGED << est, uploadVars, pageVars >>

BandNext == \E score \in Scores : ScoreBand(score)

(***************************************************************************)
(* The bundled data set                                                    *)
(***************************************************************************)
\* export const candidates: the score and the score breakdown of each record
candidates ==
    << [id |-> 1, score |-> Num(92) + 5,
        scoreBreakdown |->
          [education  |-> [score |-> 90, weight |-> 15],
           experience |-> [score |-> 100, weight |-> 25],
           skills     |-> [score |-> 100, weight |-> 40,
                           matched |-> << "Python", "SQL", "Docker" >>,
                           missing |-> << >>],
           bootcamp   |-> [score |-> 80, weight |-> 10],
           portfolio  |-> [score |-> 80, weight |-> 15],
           location   |-> [score |-> 100, weight |-> 5]]],
       [id |-> 2, score |-> Num(78) + 5,
        scoreBreakdown |->
          [education  |-> [score |-> 80, weight |-> 15],
           experience |-> [score |-> 100, weight |-> 25],
           skills     |-> [score |-> 70, weight |-> 40,
                           matched |-> << "Python", "SQL", "Docker" >>,
                           missing |-> << "REST API" >>],
           bootcamp   |-> [score |-> 60, weight |-> 10],
           portfolio  |-> [score |-> 80, weight |-> 15],
           location   |-> [score |-> 100, weight |-> 5]]],
       [id |-> 3, score |-> Num(65),
        scoreBreakdown |->
          [education  |-> [score |-> 70, weight |-> 15],
           experience |-> [score |-> 60, weight |-> 25],
           skills     |-> [score |-> 40, weight |-> 40,
                           matched |-> << "Python" >>,
                           missing |-> << "SQL", "Docker" >>],
           bootcamp   |-> [score |-> 0, weight |-> 10],
           portfolio  |-> [score |-> 40, weight |-> 15],
           location   |-> [score |-> 80, weight |-> 5]]],
       [id |-> 4, score |-> Num(42),
        scoreBreakdown |->
          [education  |-> [score |-> 50, weight |-> 15],
           experience |-> [score |-> 30, weight |-> 25],
           skills     |-> [score |-> 0, weight |-> 40,
                           matched |-> << >>,
                           missing |-> << "Python", "SQL", "Docker" >>],
           bootcamp   |-> [score |-> 0, weight |-> 10],
           portfolio  |-> [score |-> 0, weight |-> 15],
           location   |-> [score |-> 60, weight |-> 5]]] >>

\* export const jobRequirements: the skills of the bundled job
jobRequirements ==
    [skills |-> [required  |-> << "Python", "SQL", "REST API" >>,
                 preferred |-> << "Docker", "AWS", "PostgreSQL" >>,
                 weight    |-> 40]]

Range(list) == { list[n] : n \in 1 .. Len(list) }

\* the skills a record or the bundled job names
BundledSkills ==
    Range(jobRequirements.skills.required)
      \cup UNION { Range(candidates[n].scoreBreakdown.skills.matched)
                     \cup Range(candidates[n].scoreBreakdown.skills.missing) :
                   n \in 1 .. Len(candidates) }

\* a record of the data set is read: nothing of it was summed or compared
BundledInit ==
    /\ UploadIdle
    /\ est = EstIdle
    /\ cls = ClsIdle
    /\ detail = [pc |-> "idle"]
    /\ template = [pc |-> "idle"]
    /\ dashboard = [pc |-> "idle"]
    /\ \E n \in 1 .. Len(candidates) :
          bundled = [pc |-> "read", record |-> candidates[n],
                     summed |-> { }, sum |-> 0, weightSum |-> 0,
                     compared |-> { }, matched |-> { }, missing |-> { },
                     required |-> { }]

\* the contribution score x weight of one criterion of the breakdown is
\* added to the sum, its weight to the sum of weights
addCriterion(key) ==
    /\ bundled.pc = "read"
    /\ key \notin bundled.summed
    /\ bundled' = Merge(bundled,
          [summed |-> bundled.summed \cup { key },
           sum |-> bundled.sum + bundled.record.scoreBreakdown[key].score
                                   * bundled.record.scoreBreakdown[key].weight,
           weightSum |-> bundled.weightSum
                           + bundled.record.scoreBreakdown[key].weight])
    /\ UNCHANGED << est, cls, uploadVars, detail, template, dashboard >>

\* one skill is looked up in the matched list and the missing list of the
\* record and in the required list of the bundled job
compareSkill(skill) ==
    /\ bundled.pc = "read"
    /\ skill \notin bundled.compared
    /\ LET in(list) == IF skill \in Range(list) THEN { skill } ELSE { }
       IN  bundled' = Merge(bundled,
             [compared |-> bundled.compared \cup { skill },
              matched |-> bundled.matched
                            \cup in(bundled.record.scoreBreakdown.skills.matched),
              missing |-> bundled.missing
                            \cup in(bundled.record.scoreBreakdown.skills.missing),
              required |-> bundled.required
                            \cup in(jobRequirements.skills.required)])
    /\ UNCHANGED << est, cls, uploadVars, detail, template, dashboard >>

BundledNext ==
    \/ \E key \in WeightKeys : addCriterion(key)
    \/ \E skill \in BundledSkills : compareSkill(skill)

vars == << est, cls, backendHealthy, backendAvailable, job, initPc, isDragOver,
           files, procs, nextId, detail, template, dashboard, bundled >>

UploadSpec == UploadInit /\ [][UploadNext]_vars

UploadFairSpec == UploadSpec /\ UploadFairness

ClassifySpec == ClsInit /\ [][ClsNext]_vars


EstimateSpec == EstInit /\ [][EstNext]_vars

DetailSpec == DetailInit /\ [][DetailNext]_vars

TemplateSpec == TemplateInit /\ [][TemplateNext]_vars

DashboardSpec == DashboardInit /\ [][DashboardNext]_vars

BandSpec == ClsInit /\ [][BandNext]_vars

BundledSpec == BundledInit /\ [][BundledNext]_vars

(***************************************************************************)
(* The fallback estimator: C1, C2, C3                                      *)
(***************************************************************************)
\* C1: for every file name and every non-negative size, the fallback score
\* is an integer of [40, 100], the hash -2^31 included.
C1_FallbackScoreInRange ==
    est.pc = "done" => est.score \in 40 .. 100

C1_Witness ==
    est.pc = "done" /\ est.hash = MinInt32 /\ est.score = 99

\* C2: two fallback scorings of files with the same name and the same size
\* give the same score, whatever else is in the list and whenever they run;
\* the score an entry shows is the score its scoring computed.
C2_FallbackDeterministic ==
    /\ \A a, b \in Ids :
          ( /\ procs[a].pc = "doneFallback"
            /\ procs[b].pc = "doneFallback"
            /\ procs[a].file.name = procs[b].file.name
            /\ procs[a].file.size = procs[b].file.size )
          => procs[a].score = procs[b].score
    /\ \A n \in 1 .. Len(files) :
          procs[files[n].id].pc = "doneFallback"
          => files[n].score = Num(procs[files[n].id].score)

\* two scorings of the same name and size, of two File objects, the second
\* one run while the list holds the scored entry of the first
C2_Witness ==
    \E a, b \in Ids :
        /\ a # b
        /\ procs[a].pc = "doneFallback"
        /\ procs[b].pc = "doneFallback"
        /\ procs[a].file # procs[b].file
        /\ procs[a].file.name = procs[b].file.name
        /\ procs[a].file.size = procs[b].file.size
        /\ InList(files, a)
        /\ InList(files, b)

\* the reference rolling hash: (31 * h + c) wrapped to a signed 32-bit integer
RefStep(h, c) ==
    LET lo == Lo16(h) * 31 + c
        hi == Hi16(h) * 31 + (lo \div Two16)
    IN  Int32Of(hi % Two16, lo % Two16)

RECURSIVE RefHash(_)
RefHash(str) ==
    IF str = << >> THEN 0
    ELSE RefStep(RefHash(SubSeq(str, 1, Len(str) - 1)), str[Len(str)])

\* the number a string of decimal digits denotes
RECURSIVE DigitsValue(_)
DigitsValue(str) ==
    IF str = << >> THEN 0
    ELSE 10 * DigitsValue(SubSeq(str, 1, Len(str) - 1)) + (str[Len(str)] - 48)

\* C3: the loop runs over the file name followed by the decimal digits of
\* the size, starts from 0, and each step takes h to (31 * h + c) wrapped to
\* a signed 32-bit integer.
C3_ReferenceHash ==
    est.pc # "idle" =>
        LET digits == SubSeq(est.str, Len(est.name) + 1, Len(est.str))
        IN  /\ SubSeq(est.str, 1, Len(est.name)) = est.name
            /\ Len(digits) >= 1
            /\ \A k \in 1 .. Len(digits) : digits[k] \in 48 .. 57
            /\ Len(digits) > 1 => digits[1] # 48
            /\ DigitsValue(digits) = est.size
            /\ est.hash \in MinInt32 .. MaxInt32
            /\ est.hash = RefHash(SubSeq(est.str, 1, est.i))
            /\ est.i > 0 => est.hash = RefStep(est.prev, est.str[est.i])

\* a step from the largest hash, which wraps
C3_Witness ==
    est.pc = "loop" /\ est.i > 0 /\ est.prev = MaxInt32 /\ est.hash < 0

(***************************************************************************)
(* The score classifiers: C10                                              *)
(***************************************************************************)
\* C10: getScoreClass of Dashboard, getScoreClass of CandidateDetail and
\* getScoreColor of UploadCV give the top class exactly when score >= 80,
\* the middle class exactly when 60 <= score < 80, the low class exactly
\* when score < 60.
C10_Thresholds ==
    cls.pc = "done" =>
        LET band == IF cls.score >= Num(80) THEN 3
                    ELSE IF cls.score >= Num(60) THEN 2 ELSE 1
        IN  /\ cls.dashboard = << "low", "medium", "high" >>[band]
            /\ cls.detail = << "low", "medium", "high" >>[band]
            /\ cls.upload = << "var(--color-danger)", "var(--color-warning)",
                               "var(--color-success)" >>[band]

\* the scores at and around the thresholds were classified
C10_Witness ==
    /\ cls.pc = "done"
    /\ cls.score = Num(80)
    /\ cls.upload = "var(--color-success)"
    /\ cls.dashboard = "high"

(***************************************************************************)
(* The upload list: C4 .. C9                                               *)
(***************************************************************************)
\* the processFile call of the entry took the fallback branch and scored it
FallbackScored(f) ==
    procs[f.id].pc = "doneFallback" /\ f.status = "scored" /\ "score" \in DOMAIN f

BackendScored(f) ==
    procs[f.id].pc = "doneBackend" /\ f.status = "scored" /\ "score" \in DOMAIN f

InFlight(id) == procs[id].pc \in { "upload", "fallback", "scoreCV" }

SameFile(f, g) == f.name = g.name /\ f.size = g.size

\* C4: no file is given a fallback score while the backend is healthy, a
\* file submitted before the health check of init completed included.
C4_FallbackOnlyWhenUnavailable ==
    \A n \in 1 .. Len(files) : FallbackScored(files[n]) => ~backendHealthy

\* the health check answered true, and the list holds a fallback score of a
\* processFile call that had captured backendAvailable = null
C4_Witness ==
    \E n \in 1 .. Len(files) :
        /\ FallbackScored(files[n])
        /\ procs[files[n].id].backendAvailable = Null
        /\ backendHealthy
        /\ backendAvailable = "true"

\* what the row of an entry shows about where its score came from: the
\* name it displays ({file.candidateName || file.name}), the status tag,
\* and a dedicated field if the entry had one
Marker(f) ==
    [name |-> IF Has(f, "candidateName") /\ ~Falsy(f.candidateName)
              THEN [candidateName |-> f.candidateName, fileName |-> << >>]
              ELSE [candidateName |-> Undefined, fileName |-> f.name],
     tag |-> getStatusTag(f.status, IF "error" \in DOMAIN f THEN f.error ELSE Undefined),
     estimated |-> IF "estimated" \in DOMAIN f THEN f.estimated ELSE Undefined]

\* C5: an entry whose score came from the fallback carries a marker that
\* distinguishes it from an entry whose score the backend computed.
C5_FallbackTagged ==
    \A n \in 1 .. Len(files) :
        FallbackScored(files[n]) =>
            \A result \in ScoreResults :
                Marker(files[n]) # Marker(Merge(files[n], scoredUpdate(result)))

\* the list holds a fallback score and a backend score under the same tag
C5_Witness ==
    \E m, n \in 1 .. Len(files) :
        /\ FallbackScored(files[m])
        /\ BackendScored(files[n])
        /\ Marker(files[m]).tag = Marker(files[n]).tag
        /\ Marker(files[m]).estimated = Marker(files[n]).estimated

\* C6: an entry scored by the fallback carries the score and nothing of a
\* backend result: no candidateId, no candidateName, no matched or missing
\* data, and its score links nowhere.
C6_FallbackOnlyScore ==
    \A n \in 1 .. Len(files) :
        procs[files[n].id].pc \in { "fallback", "doneFallback" } =>
            /\ ~Has(files[n], "candidateId")
            /\ ~Has(files[n], "candidateName")
            /\ DOMAIN files[n] \subseteq
                  { "id", "name", "size", "status", "progress", "score" }
            /\ scoreLink(files[n]) = << "#" >>
            /\ procs[files[n].id].pc = "doneFallback" <=> "score" \in DOMAIN files[n]

C6_Witness ==
    \E n \in 1 .. Len(files) :
        /\ FallbackScored(files[n])
        /\ files[n].score = Num(99)
        /\ \E m \in 1 .. Len(files) : BackendScored(files[m])

Settled(f) ==
    \/ f.status = "scored" /\ "score" \in DOMAIN f
    \/ f.status = "error" /\ Has(f, "error")

\* C8: every entry of the list that is not removed eventually reports its
\* outcome: 'scored' with a score, or 'error' with a message.
C8_EventualOutcome ==
    \A id \in 1 .. MaxProcs :
        InList(files, id) ~> (~InList(files, id) \/ Settled(Entry(files, id)))

\* an entry is scored, another one shows its error
C8_Witness ==
    \E m, n \in 1 .. Len(files) :
        /\ files[m].status = "error" /\ Has(files[m], "error")
        /\ files[n].status = "scored" /\ "score" \in DOMAIN files[n]

\* C9: the list never holds two entries with the same name and size, and
\* at most one score computation is in flight per file.
C9_AtMostOnePerFile ==
    /\ \A m, n \in 1 .. Len(files) : m # n => ~SameFile(files[m], files[n])
    /\ \A a, b \in Ids :
          (a # b /\ InFlight(a) /\ InFlight(b)) => ~SameFile(procs[a].file, procs[b].file)

\* one batch held two files of the same name and size: both got an entry
\* and both are being scored
C9_Witness ==
    \E a, b \in Ids :
        /\ a # b
        /\ procs[a].first = procs[b].first
        /\ SameFile(procs[a].file, procs[b].file)
        /\ procs[a].pc = "scoreCV" /\ procs[b].pc = "scoreCV"
        /\ InList(files, a) /\ InList(files, b)

(***************************************************************************)
(* CandidateDetail: C11, C12, C13                                          *)
(***************************************************************************)
\* the view holds a candidate whose status is 'interview'
ShowsInterview(d) ==
    d.candidate # NullCandidate /\ d.candidate.status = "interview"

\* the updates processFile applies to an upload entry
EntryUpdates ==
    { parsingUpdate }
    \cup { progressUpdate(i) : i \in { 0, 25, 50, 75, 100 } }
    \cup { fallbackUpdate(score) : score \in 40 .. 100 }
    \cup { scoredUpdate(result) : result \in ScoreResults }
    \cup { errorUpdate(message) : message \in ScoreErrors }

\* C11: the status 'interview' comes from an explicit human action only.
\* The view comes to hold the status 'interview' either by the update of a
\* handleStatusUpdate('interview') call the backend accepted, or by loading
\* a candidate the backend already stores as 'interview'; the backend is
\* asked for 'interview' only by a call a click on the enabled Schedule
\* Interview button started; no update of an upload entry assigns a
\* candidate status.
C11_InterviewOnlyByHumanAction ==
    [][ /\ (ShowsInterview(detail') /\ ~ShowsInterview(detail)) =>
              \/ /\ detail.call.pc = "resolved"
                 /\ detail.call.status = "interview"
                 /\ detail.server.status = "interview"
              \/ /\ detail.fetching
                 /\ detail.server.status = "interview"
        /\ (detail'.server.status = "interview" /\ detail.server.status # "interview") =>
              /\ detail.call.pc = "put"
              /\ detail.call.status = "interview"
        /\ (detail'.call.pc = "put" /\ detail.call.pc # "put") =>
              /\ buttonsShown
              /\ detail'.call.status \in ButtonStatuses
              /\ ~buttonDisabled(detail'.call.status)
        /\ \A upd \in EntryUpdates :
              "status" \in DOMAIN upd => upd.status \notin Statuses
      ]_vars

\* Schedule Interview was clicked, the backend accepted, the view shows it
C11_Witness ==
    /\ detail.pc = "mounted"
    /\ ShowsInterview(detail)
    /\ detail.last.outcome = "ok"
    /\ detail.last.status = "interview"
    /\ detail.last.before.status = "review"
    /\ detail.server.status = "interview"

\* C12: after a successful handleStatusUpdate(s) the candidate of the view
\* has status s and, in every other field (id, total_score,
\* score_breakdown, parsed_data, ...), the value it had before the call.
C12_OnlyStatusChanges ==
    (detail.pc = "mounted" /\ detail.last.outcome = "ok" /\ detail.call.pc = "none") =>
        /\ detail.candidate.status = detail.last.status
        /\ DOMAIN detail.candidate = DOMAIN detail.last.before
        /\ \A k \in DOMAIN detail.candidate \ { "status" } :
              detail.candidate[k] = detail.last.before[k]

\* a successful update of the candidate with the fractional score
C12_Witness ==
    /\ detail.pc = "mounted"
    /\ detail.last.outcome = "ok"
    /\ detail.call.pc = "none"
    /\ detail.last.before.status = "review"
    /\ detail.candidate.status = "rejected"
    /\ detail.candidate.total_score = Num(59) + 5
    /\ detail.candidate.id = 2

\* C13: from every current status, whenever the view shows a candidate and
\* no update is in flight, each other status of Statuses can be set: the
\* view offers an enabled action that starts handleStatusUpdate with it.
C13_AnyStatusSettable ==
    (buttonsShown /\ ~detail.updating) =>
        \A status \in Statuses \ { detail.candidate.status } :
            ENABLED handleStatusUpdate(status)

\* a shortlisted candidate, no update in flight: 'review' cannot be set
C13_Witness ==
    /\ buttonsShown
    /\ ~detail.updating
    /\ detail.candidate.status = "shortlisted"
    /\ ~ENABLED handleStatusUpdate("review")
    /\ ENABLED handleStatusUpdate("interview")
    /\ ENABLED handleStatusUpdate("rejected")

(***************************************************************************)
(* JobTemplate: C14 .. C18                                                 *)
(***************************************************************************)
\* s.toLowerCase(), on the skills of the model
toLowerCase(s) ==
    CASE s = "Python" -> "python"
      [] s = "SQL" -> "sql"
      [] s = "REST API" -> "rest api"
      [] s = "Docker" -> "docker"
      [] s = "AWS" -> "aws"
      [] s = "PostgreSQL" -> "postgresql"
      [] OTHER -> s

NoCaseDuplicates(list) ==
    \A m, n \in 1 .. Len(list) :
        m # n => toLowerCase(list[m]) # toLowerCase(list[n])

\* C14: neither skill list of buildRequirements holds two entries that are
\* equal when compared case-insensitively.
C14_SkillsDeduplicated ==
    template.pc = "mounted" =>
        /\ NoCaseDuplicates(buildRequirements(template).skills.required)
        /\ NoCaseDuplicates(buildRequirements(template).skills.preferred)

\* "python" was typed and added to the default list, which holds "Python"
C14_Witness ==
    /\ template.pc = "mounted"
    /\ buildRequirements(template).skills.required
          = << "Python", "SQL", "REST API", "python" >>

\* C15: each of the six weights buildRequirements gives, and each weight
\* handleSave sent, is >= 0.
C15_WeightsNonNegative ==
    template.pc = "mounted" =>
        \A key \in WeightKeys :
            /\ buildRequirements(template)[key].weight >= 0
            /\ template.sent # NoRequest =>
                  template.sent.requirements[key].weight >= 0

\* a job was loaded, then a slider was moved to its lower end
C15_Witness ==
    /\ template.pc = "mounted"
    /\ template.weights.education = 20
    /\ template.weights.skills = 0
    /\ template.loaded = NoJob

C17_ZeroWeightKept ==
    (template.pc = "mounted" /\ template.loaded # NoJob) =>
        \A key \in WeightKeys :
            buildRequirements(template)[key].weight
                = template.loaded.requirements[key].weight

\* the job whose weights are all 0 was loaded: the page holds the defaults
C17_Witness ==
    /\ template.pc = "mounted"
    /\ template.loaded = JobZero
    /\ \A key \in WeightKeys : buildRequirements(template)[key].weight = defaultWeights[key]

\* C18: loadJobData followed by buildRequirements gives the min_years, the
\* min_projects, the relevant_titles and the portfolio.required of the job.
C18_RequirementsKept ==
    (template.pc = "mounted" /\ template.loaded # NoJob) =>
        LET built == buildRequirements(template)
            req == template.loaded.requirements
        IN  /\ built.experience.min_years = req.experience.min_years
            /\ built.portfolio.min_projects = req.portfolio.min_projects
            /\ built.experience.relevant_titles = req.experience.relevant_titles
            /\ built.portfolio.required = req.portfolio.required

\* a job with min_years 0, min_projects 0, its own titles and no portfolio
\* required was loaded
C18_Witness ==
    /\ template.pc = "mounted"
    /\ template.loaded = JobMixed
    /\ buildRequirements(template).experience.min_years = 3
    /\ buildRequirements(template).portfolio.min_projects = 2
    /\ buildRequirements(template).experience.relevant_titles
          = << "Developer", "Engineer", "Programmer" >>
    /\ buildRequirements(template).portfolio.required = TRUE

\* C19: the rows of the Dashboard table carry the ranks 1..n in order and are
\* sorted by total_score descending, whatever list the view received.
C19_RankingSorted ==
    dashboard.pc = "mounted" =>
        LET rows == tableRows(dashboard.candidates)
        IN  /\ \A i \in 1 .. Len(rows) : rows[i].rank = i
            /\ \A i \in 1 .. Len(rows) - 1 :
                   rows[i].total_score >= rows[i + 1].total_score

\* a received list is shown whose second row has the higher score
C19_Witness ==
    /\ dashboard.pc = "mounted"
    /\ dashboard.shown # 0
    /\ Len(dashboard.candidates) = 2
    /\ tableRows(dashboard.candidates)[1].rank = 1
    /\ tableRows(dashboard.candidates)[2].rank = 2
    /\ dashboard.candidates[1].total_score < dashboard.candidates[2].total_score

\* the score filter option of a getScoreClass band
BandOption(class) ==
    CASE class = "high" -> Option80to100
      [] class = "medium" -> Option60to79
      [] class = "low" -> Option0to59

\* the options whose [min_score, max_score] bounds hold the score
OptionsHolding(c) ==
    { option \in ScoreFilterOptions :
        /\ Num(c.filters[option].min_score) <= c.score
        /\ c.score <= Num(c.filters[option].max_score) }

\* C20: every score in [0,100] lies within the bounds of exactly one score
\* filter option, the one of the score's getScoreClass band.
C20_BandsPartition ==
    cls.pc = "banded" => OptionsHolding(cls) = { BandOption(cls.class) }

\* 59.5 is classed low and lies within the bounds of no option
C20_Witness ==
    /\ cls.pc = "banded"
    /\ cls.score = Num(59) + 5
    /\ cls.class = "low"
    /\ cls.filters[Option0to59] = [min_score |-> 0, max_score |-> 59]
    /\ OptionsHolding(cls) = { }

\* the processFile calls that issued api.scoreCV
Requested == { id \in Ids : "request" \in DOMAIN procs[id] }

\* C21: every api.scoreCV call issued by processFile names the id of a job
\* that was loaded; none carries a job id standing in for a job that failed
\* to load or was never loaded.
C21_NoImplicitDefaultJob ==
    \A id \in Requested :
        /\ procs[id].job # NullJob
        /\ procs[id].request.jobId = procs[id].job.id

\* api.getJob(1) was rejected, and a scoring request went out with job id 1
C21_Witness ==
    /\ initPc = "done"
    /\ job = NullJob
    /\ \E id \in Requested :
          /\ procs[id].job = NullJob
          /\ procs[id].request.jobId = 1

\* C22: for every record of the bundled data set the matched and the missing
\* skills are disjoint and together are the required skills of the bundled
\* job (stated on the skills compared so far, all of them in the end).
C22_MatchedMissingPartition ==
    bundled.pc = "read" =>
        /\ bundled.matched \cap bundled.missing = { }
        /\ bundled.matched \cup bundled.missing = bundled.required

\* every skill of the first record is compared: Docker is matched and not
\* required, REST API is required and neither matched nor missing
C22_Witness ==
    /\ bundled.pc = "read"
    /\ bundled.record.id = 1
    /\ bundled.compared = BundledSkills
    /\ "Docker" \in bundled.matched \ bundled.required
    /\ "REST API" \in bundled.required \ (bundled.matched \cup bundled.missing)

\* the sum of score x weight / 100 with the weights normalized by
\* 100 / weightSum is sum / weightSum; clamped to [0,100] and compared with a
\* score kept in tenths, without division
EqualsNormalizedTotal(score, sum, weightSum) ==
    LET clamped == IF sum < 0 THEN 0
                   ELSE IF sum > 100 * weightSum THEN 100 * weightSum
                   ELSE sum
    IN  score * weightSum = Scale * clamped

\* C23: for every record of the bundled data set the total score is the sum
\* over the six criteria of score x weight / 100 with normalized weights,
\* clamped to [0,100].
C23_TotalIsWeightedSum ==
    (bundled.pc = "read" /\ bundled.summed = WeightKeys) =>
        EqualsNormalizedTotal(bundled.record.score, bundled.sum, bundled.weightSum)

\* the six criteria of the first record are summed: 10350 over weights that
\* sum to 110, next to a score of 92.5
C23_Witness ==
    /\ bundled.pc = "read"
    /\ bundled.record.id = 1
    /\ bundled.summed = WeightKeys
    /\ bundled.sum = 10350
    /\ bundled.weightSum = 110
    /\ bundled.record.score = Num(92) + 5

\* the fileIds handed out before and after a step
IdsNow == 1 .. (nextId - 1)
IdsNext == 1 .. (nextId' - 1)

\* C24: the status of an upload entry only moves uploading -> parsing ->
\* (scored | error); scored and error are terminal, and a new entry starts
\* in uploading, under every interleaving of the processFile calls.
C24_StatusMovesForward ==
    [][\A id \in IdsNext :
          InList(files', id) =>
              IF id \in IdsNow /\ InList(files, id)
              THEN \/ Entry(files', id).status = Entry(files, id).status
                   \/ /\ Entry(files, id).status = "uploading"
                      /\ Entry(files', id).status = "parsing"
                   \/ /\ Entry(files, id).status = "parsing"
                      /\ Entry(files', id).status \in { "scored", "error" }
              ELSE Entry(files', id).status = "uploading"]_vars

\* two processFile calls ran interleaved: one entry ended scored, the other
\* in error
C24_Witness ==
    \E id, other \in IdsNow :
        /\ InList(files, id) /\ InList(files, other)
        /\ Entry(files, id).status = "scored"
        /\ Entry(files, other).status = "error"

ProgressValues == { 0, 25, 50, 75, 100 }

\* C25: each entry's progress is one of 0, 25, 50, 75, 100 and never
\* decreases; a parsing, scored or error entry has progress 100; an entry has
\* a defined score exactly when it is scored.
C25_ProgressAndScore ==
    /\ [](\A n \in 1 .. Len(files) :
            /\ files[n].progress \in ProgressValues
            /\ files[n].status \in { "parsing", "scored", "error" }
                 => files[n].progress = 100
            /\ Has(files[n], "score") <=> files[n].status = "scored")
    /\ [][\A id \in IdsNow :
            InList(files, id) /\ InList(files', id)
              => Entry(files', id).progress >= Entry(files, id).progress]_vars

\* an entry is half uploaded next to a scored entry and its score
C25_Witness ==
    \E id, other \in IdsNow :
        /\ InList(files, id) /\ InList(files, other)
        /\ Entry(files, id).status = "uploading"
        /\ Entry(files, id).progress = 50
        /\ ~Has(Entry(files, id), "score")
        /\ Entry(files, other).status = "scored"
        /\ Entry(files, other).progress = 100
        /\ Has(Entry(files, other), "score")

\* C26: a step that takes an entry out of the list takes out exactly that
\* entry and leaves the others as they were, and an entry that is gone never
\* comes back, whatever its processFile still does.
C26_RemovedStaysRemoved ==
    [][\A id \in IdsNow :
          /\ (InList(files, id) /\ ~InList(files', id))
                => files' = SelectSeq(files, LAMBDA f : f.id # id)
          /\ ~InList(files, id) => ~InList(files', id)]_vars

\* an entry was removed while its processFile ran; the call has finished and
\* the other entry is still listed
C26_Witness ==
    \E id, other \in IdsNow :
        /\ ~InList(files, id)
        /\ procs[id].pc \in { "doneFallback", "doneBackend", "doneError" }
        /\ InList(files, other)

\* every fetchData call of the Dashboard has completed
AllFetched ==
    /\ dashboard.pc = "mounted"
    /\ \A n \in 1 .. Len(dashboard.calls) : dashboard.calls[n].pc = "done"

\* the most recently started fetchData call
LastCall == dashboard.calls[Len(dashboard.calls)]

\* C27: once all overlapping fetchData calls have completed, and the most
\* recently started one was answered with data, the candidates and stats
\* shown are those of that call.
C27_LatestFetchWins ==
    (AllFetched /\ LastCall.outcome = "resolved")
        => dashboard.shown = Len(dashboard.calls)

\* two calls overlapped, both were answered with data, and the answer of
\* the first arrived last and is the one shown
C27_Witness ==
    /\ AllFetched
    /\ Len(dashboard.calls) = 2
    /\ dashboard.calls[1].outcome = "resolved"
    /\ dashboard.calls[2].outcome = "resolved"
    /\ dashboard.calls[1].scoreFilter # dashboard.calls[2].scoreFilter
    /\ dashboard.shown = 1

\* the fetchData call n completes in this step
Completes(n) ==
    /\ n \in 1 .. Len(dashboard.calls)
    /\ dashboard.calls[n].pc # "done"
    /\ dashboard'.calls[n].pc = "done"

\* C28: a fetchData call ends with loading = false on each of its three
\* paths; on the unhealthy path no stats or candidates request was issued,
\* the error is the backend-unavailable message and the candidates and stats
\* shown are left as they were.
C28_FetchEndsNotLoading ==
    [][dashboard.pc = "mounted" =>
         \A n \in 1 .. MaxFetches :
            Completes(n) =>
               /\ dashboard'.loading = FALSE
               /\ dashboard'.calls[n].outcome = "unhealthy" =>
                    /\ "query" \notin DOMAIN dashboard'.calls[n]
                    /\ dashboard'.error = "Backend tidak tersedia"
                    /\ dashboard'.backendAvailable = "false"
                    /\ dashboard'.candidates = dashboard.candidates
                    /\ dashboard'.stats = dashboard.stats]_vars

\* a list is shown, and a later call ended on the unhealthy path: not
\* loading, the message set, the list still shown
C28_Witness ==
    /\ AllFetched
    /\ Len(dashboard.calls) = 2
    /\ dashboard.shown = 1
    /\ Len(dashboard.candidates) = 2
    /\ dashboard.calls[2].outcome = "unhealthy"
    /\ "query" \notin DOMAIN dashboard.calls[2]
    /\ dashboard.loading = FALSE
    /\ dashboard.error = "Backend tidak tersedia"

\* the fetchData calls that issued their candidates request
Queried ==
    { n \in 1 .. Len(dashboard.calls) : "query" \in DOMAIN dashboard.calls[n] }

\* the filters the call n handed to api.getCandidates
FiltersOf(n) ==
    buildFilters(dashboard.calls[n].statusFilter, dashboard.calls[n].searchQuery,
                 dashboard.calls[n].scoreFilter)

\* C30: every filter handed to getCandidates is a parameter of the query
\* string, with its value; min_score = 0 included.
C30_EveryFilterForwarded ==
    dashboard.pc = "mounted" =>
        \A n \in Queried :
            \A key \in DOMAIN FiltersOf(n) :
                /\ key \in DOMAIN dashboard.calls[n].query
                /\ IF key \in { "min_score", "max_score" }
                   THEN ToNumber(dashboard.calls[n].query[key]) = FiltersOf(n)[key]
                   ELSE dashboard.calls[n].query[key] = FiltersOf(n)[key]

\* the 0-59 filter is set: the filters hold min_score 0 and max_score 59,
\* the query holds max_score only
C30_Witness ==
    /\ dashboard.pc = "mounted"
    /\ \E n \in Queried :
          /\ dashboard.calls[n].scoreFilter = Option0to59
          /\ FiltersOf(n) = [min_score |-> 0, max_score |-> 59]
          /\ DOMAIN dashboard.calls[n].query = { "max_score" }
          /\ ToNumber(dashboard.calls[n].query.max_score) = 59

\* C29: when api.updateCandidateStatus fails, handleStatusUpdate leaves the
\* candidate of the view as it was; on the success and on the failure path
\* updating returns to false; while updating is true the three status
\* buttons are disabled, and an update starts only when none is in flight.
C29_FailedUpdateChangesNothing ==
    /\ []((detail.pc = "mounted" /\ detail.updating) =>
             /\ detail.call.pc # "none"
             /\ \A status \in ButtonStatuses : buttonDisabled(status))
    /\ [][detail.pc = "mounted" =>
            /\ (detail.call.pc = "rejected" /\ detail'.call.pc = "none") =>
                  /\ detail'.candidate = detail.candidate
                  /\ detail'.updating = FALSE
            /\ (detail.call.pc = "resolved" /\ detail'.call.pc = "none") =>
                  detail'.updating = FALSE
            /\ (detail'.call.pc = "put" /\ detail'.call # detail.call) =>
                  /\ detail.call.pc = "none"
                  /\ ~detail.updating]_vars

\* an update to 'interview' failed: the view still holds the candidate in
\* review, is not updating, and the buttons can be used again
C29_Witness ==
    /\ detail.pc = "mounted"
    /\ detail.last.outcome = "failed"
    /\ detail.last.status = "interview"
    /\ detail.call.pc = "none"
    /\ detail.candidate = detail.last.before
    /\ detail.candidate.status = "review"
    /\ ~detail.updating
    /\ ~buttonDisabled("interview")

====
